---- MODULE Spec2Model ----
(***************************************************************************)
(* Notes Collector browser extension: the domain matcher (utils/url.ts,    *)
(* isUrlDisabled), the site toggle of the background service worker        *)
(* (toggleSiteEnabled) over the stored record of background/storage.ts,    *)
(* the image candidate scorer of the content script (findBestImage,        *)
(* isPlaceholderImage), and the background handlers for captures, delete,  *)
(* reorder, clear-all, toggle and install as steps between their awaits,   *)
(* the reply to CHECK_SITE_ENABLED, the tab listeners of the service       *)
(* worker, and the screenshot overlay of the content script.               *)
(*                                                                         *)
(* Strings that the code takes apart (hostnames, entries of the disabled   *)
(* list) are sequences of one-character strings, so that split('.') and    *)
(* join('.') are computed and not assumed.                                 *)
(***************************************************************************)
EXTENDS Naturals, Integers, Sequences, FiniteSets, TLC

VARIABLES
    url,            \* SpecMatch: the url argument of isUrlDisabled
    domains,        \* SpecMatch: the disabledDomains argument of isUrlDisabled
    outcome,        \* SpecMatch: completion of the last isUrlDisabled call
    storage,        \* browser.storage.local[STORAGE_KEY]
    tabs,           \* the browser's tabs: tab id -> tab (its url)
    tabMsg,         \* last SITE_ENABLED_CHANGED sent to each tab
    sidebarMsg,     \* last SITE_ENABLED_CHANGED sent to the sidebar
    menuTitle,      \* title of context-menu item 'toggle-notes-collector'
    lastToggle,     \* history: what the last toggleSiteEnabled call saw and did
    img,            \* SpecPlaceholder: the argument of isPlaceholderImage
    placeholder,    \* SpecPlaceholder: completion of the isPlaceholderImage call
    images,         \* SpecImage: the document's img elements, nearest ancestor first
    inner,          \* SpecImage: how many of them lie under startElement.parentElement
    startElement,   \* SpecImage: the argument of findBestImage (0 is null)
    best,           \* SpecImage: completion of findBestImage, content.ts 100-190
    bestRefactored, \* SpecImage: completion of findBestImage, content.ts 838-890
    calls,          \* background: the handler invocations, by slot
    started,        \* background: how many handler invocations have begun
    uuids,          \* background: how many ids self.crypto.randomUUID has given out
    overlap,        \* background: whether a message is taken up while a handler awaits
    listening,      \* the tabs in which a content script listens for messages
    activeTab,      \* SpecTabs: the active tab of the current window
    request,        \* SpecCheck: the message and the sender given to handleCheckSiteEnabled
    reply,          \* SpecCheck: what handleCheckSiteEnabled answered
    overlay,        \* screenshotOverlay.ts: the overlay variable (0 is null), by activation
    box,            \* screenshotOverlay.ts: the box variable: "null", or its display
    startPoint,     \* screenshotOverlay.ts: startX and startY
    isDrawing,      \* screenshotOverlay.ts: the isDrawing variable
    dom,            \* SpecOverlay: the overlay elements under document.body, by activation
    listeners,      \* SpecOverlay: the activations whose three handlers are on document
    timers,         \* SpecOverlay: the pending setTimeout callbacks of handleMouseUp
    captured,       \* SpecOverlay: history: the calls of onCapture
    ended           \* SpecOverlay: history: per activation, how and where it ended

matchVars == <<url, domains, outcome>>
siteVars == <<storage, tabs, tabMsg, sidebarMsg, menuTitle, lastToggle>>
imageVars == <<img, placeholder, images, inner, startElement, best, bestRefactored>>
bgVars == <<calls, started, uuids, overlap>>
overlayVars == <<overlay, box, startPoint, isDrawing, dom, listeners, timers, captured, ended>>
pageVars == <<listening, activeTab, request, reply, overlayVars>>
vars == <<url, domains, outcome, storage, tabs, tabMsg, sidebarMsg, menuTitle, lastToggle,
          img, placeholder, images, inner, startElement, best, bestRefactored,
          calls, started, uuids, overlap, listening, activeTab, request, reply,
          overlay, box, startPoint, isDrawing, dom, listeners, timers, captured, ended>>

-----------------------------------------------------------------------------
(* Bounds of the model *)

MaxLabels == 3      \* hostnames have 1..MaxLabels labels
MaxDomains == 2     \* SpecMatch: length of the disabledDomains argument
MaxStored == 3      \* Spec: a push is explored while the stored list is shorter
NumTabs == 2        \* Spec: open tabs
NumCalls == 2       \* background: handler invocations that can be in progress at once
MaxOps == 3         \* SpecBg, SpecSeq: handler invocations in one behaviour

-----------------------------------------------------------------------------
(* Strings *)

LabelPool == {<<"a">>, <<"b">>}

\* Array.prototype.join('.')
RECURSIVE Join(_)
Join(parts) ==
    IF Len(parts) = 0 THEN <<>>
    ELSE IF Len(parts) = 1 THEN parts[1]
    ELSE parts[1] \o <<".">> \o Join(Tail(parts))

\* String.prototype.split('.'): "" gives [""], "a." gives ["a", ""]
RECURSIVE Split(_)
Split(s) ==
    IF \A i \in 1..Len(s) : s[i] # "." THEN <<s>>
    ELSE LET k == CHOOSE i \in 1..Len(s) :
                     s[i] = "." /\ \A j \in 1..(i - 1) : s[j] # "."
         IN <<SubSeq(s, 1, k - 1)>> \o Split(SubSeq(s, k + 1, Len(s)))

\* Array.prototype.slice(i), i counted from 0
SliceFrom(parts, i) == SubSeq(parts, i + 1, Len(parts))

\* Array.prototype.includes
Includes(arr, x) == \E k \in 1..Len(arr) : arr[k] = x

\* Array.prototype.indexOf: the first position counted from 0, -1 when absent
IndexOf(arr, x) ==
    IF Includes(arr, x)
    THEN (CHOOSE k \in 1..Len(arr) :
              arr[k] = x /\ \A j \in 1..(k - 1) : arr[j] # x) - 1
    ELSE -1

\* Array.prototype.splice(index, 1), index counted from 0
Splice(arr, index) ==
    SubSeq(arr, 1, index) \o SubSeq(arr, index + 2, Len(arr))

HostsOfLen(n) == {Join(ls) : ls \in [1..n -> LabelPool]}
Hosts == UNION {HostsOfLen(n) : n \in 1..MaxLabels}

-----------------------------------------------------------------------------
(* URLs.  A url value is one of: undefined, the empty string, a string     *)
(* that new URL() rejects, or an absolute URL with protocol and hostname.  *)

UndefinedUrl == [kind |-> "undefined", protocol |-> "", hostname |-> <<>>]
EmptyUrl == [kind |-> "empty", protocol |-> "", hostname |-> <<>>]
MalformedUrl == [kind |-> "malformed", protocol |-> "", hostname |-> <<>>]
AbsUrl(p, h) == [kind |-> "absolute", protocol |-> p, hostname |-> h]

\* !url of JavaScript: undefined and '' are falsy
Falsy(u) == u.kind \in {"undefined", "empty"}

\* new URL(url): throws TypeError unless url is an absolute URL
NewURL(u) ==
    IF u.kind = "absolute"
    THEN [threw |-> FALSE, protocol |-> u.protocol, hostname |-> u.hostname]
    ELSE [threw |-> TRUE, protocol |-> "", hostname |-> <<>>]

WebUrls == {AbsUrl("https:", h) : h \in Hosts}
InternalUrls ==
    {AbsUrl("about:", <<>>)}
        \cup {AbsUrl(p, h) : p \in {"chrome:", "moz-extension:"}, h \in HostsOfLen(1)}
FileUrls == {AbsUrl("file:", <<>>)}
UnparsableUrls == {EmptyUrl, MalformedUrl}
UrlPool == WebUrls \cup InternalUrls \cup FileUrls \cup UnparsableUrls

-----------------------------------------------------------------------------
(* utils/url.ts *)

Return(v) == [threw |-> FALSE, value |-> v]
Throw == [threw |-> TRUE, value |-> FALSE]

InternalProtocols == {"about:", "chrome:", "moz-extension:"}

\* (mutant) only the exact hostname is tried, no parent domain
RECURSIVE MatchLoopExactOnly(_, _, _)
MatchLoopExactOnly(parts, disabledDomains, i) ==
    IF i > 0 \/ i > Len(parts) - 2 THEN FALSE
    ELSE IF Includes(disabledDomains, Join(SliceFrom(parts, i))) THEN TRUE
    ELSE MatchLoopExactOnly(parts, disabledDomains, i + 1)

\* (mutant) the loop runs to parts.length - 1 and so also tries the last label alone
RECURSIVE MatchLoopToLastLabel(_, _, _)
MatchLoopToLastLabel(parts, disabledDomains, i) ==
    IF i > Len(parts) - 1 THEN FALSE
    ELSE IF Includes(disabledDomains, Join(SliceFrom(parts, i))) THEN TRUE
    ELSE MatchLoopToLastLabel(parts, disabledDomains, i + 1)

\* for (let i = 0; i <= parts.length - 2; i++) if (includes(slice(i).join('.'))) return true
RECURSIVE MatchLoop(_, _, _)
MatchLoop(parts, disabledDomains, i) ==
    IF i > Len(parts) - 2 THEN FALSE
    ELSE IF Includes(disabledDomains, Join(SliceFrom(parts, i))) THEN TRUE
    ELSE MatchLoop(parts, disabledDomains, i + 1)

\* the try block of isUrlDisabled
isUrlDisabledTry(u, disabledDomains) ==
    LET urlObj == NewURL(u) IN
    IF urlObj.threw THEN Throw
    ELSE IF urlObj.protocol \in InternalProtocols THEN Return(TRUE)
    ELSE Return(MatchLoop(Split(urlObj.hostname), disabledDomains, 0))

\* (mutant) isUrlDisabled without its catch clause
isUrlDisabledNoCatch(u, disabledDomains) ==
    IF Falsy(u) \/ Len(disabledDomains) = 0 THEN Return(FALSE)
    ELSE isUrlDisabledTry(u, disabledDomains)

\* isUrlDisabled with its completion: the early return, the try and the catch
isUrlDisabledCall(u, disabledDomains) ==
    IF Falsy(u) \/ Len(disabledDomains) = 0 THEN Return(FALSE)
    ELSE LET r == isUrlDisabledTry(u, disabledDomains) IN
         IF r.threw THEN Return(FALSE) ELSE r

\* the value a caller of isUrlDisabled gets
isUrlDisabled(u, disabledDomains) == isUrlDisabledCall(u, disabledDomains).value

-----------------------------------------------------------------------------
(* SpecMatch: isUrlDisabled as a pure function of its two arguments *)

RECURSIVE SeqsUpTo(_, _)
SeqsUpTo(S, n) ==
    IF n = 0 THEN {<<>>}
    ELSE LET shorter == SeqsUpTo(S, n - 1) IN
         shorter \cup {Append(q, x) : q \in {r \in shorter : Len(r) = n - 1}, x \in S}

DomainLists == SeqsUpTo(Hosts, MaxDomains)

NotCalled == [called |-> FALSE, threw |-> FALSE, value |-> FALSE]

\* best, bestRefactored before findBestImage is called; index 0 is null
NotSearched == [called |-> FALSE, threw |-> FALSE, index |-> 0]

\* an img element without attributes and without a loaded resource
BlankImage ==
    [src |-> <<>>, ariaHidden |-> "null", complete |-> TRUE,
     naturalWidth |-> 0, naturalHeight |-> 0, offsetWidth |-> 0, offsetHeight |-> 0,
     alt |-> "", title |-> "null"]

\* the content script's functions before any page is looked at
InitImageIdle ==
    /\ img = BlankImage
    /\ placeholder = NotCalled
    /\ images = <<>>
    /\ inner = 0
    /\ startElement = 0
    /\ best = NotSearched
    /\ bestRefactored = NotSearched

\* the locals of a handler invocation that has read nothing yet
NoData ==
    [exists |-> FALSE, items |-> <<>>, nextOrder |-> 0,
     hasDisabledDomains |-> FALSE, disabledDomains |-> <<>>]
\* a stored item: its id and its order; its type and content are left out
NoItem == [id |-> 0, order |-> 0]
NoResponse == [success |-> FALSE, error |-> "none"]

\* a slot in which no handler has run
IdleCall ==
    [op |-> "idle", pc |-> "done", n |-> 0, tab |-> 0, list |-> <<>>, itemCount |-> 0,
     data |-> NoData,
     item |-> NoItem, sent |-> <<>>, notified |-> "none", response |-> NoResponse]

CallIds == 1..NumCalls

\* the service worker before any message has arrived
InitBgIdle ==
    /\ calls = [c \in CallIds |-> IdleCall]
    /\ started = 0
    /\ uuids = 0
    /\ overlap = FALSE

TabIds == 1..NumTabs
ClosedTabId == NumTabs + 1      \* an id browser.tabs.get rejects

\* a CHECK_SITE_ENABLED message without data from a sender without a tab
NoRequest ==
    [hasTabId |-> FALSE, tabId |-> -1, senderHasTab |-> FALSE, senderTabId |-> -1,
     readFails |-> FALSE]
NotAnswered == [called |-> FALSE, success |-> FALSE, error |-> "none", enabled |-> FALSE]

\* no CHECK_SITE_ENABLED has been sent
InitCheckIdle ==
    /\ request = NoRequest
    /\ reply = NotAnswered

\* screenshotOverlay.ts 5-9: the module as it is loaded
InitOverlay ==
    /\ overlay = 0
    /\ box = "null"
    /\ startPoint = [x |-> 0, y |-> 0]
    /\ isDrawing = FALSE
    /\ dom = {}
    /\ listeners = {}
    /\ timers = {}
    /\ captured = <<>>
    /\ ended = <<>>

\* the pages and the windows before anything is looked at
InitPageIdle ==
    /\ listening = {}
    /\ activeTab = 1
    /\ InitCheckIdle
    /\ InitOverlay

\* lastToggle before any call of toggleSiteEnabled
NoToggle ==
    [phase |-> "none", url |-> UndefinedUrl, before |-> <<>>, after |-> <<>>,
     tabEnabled |-> TRUE, sidebarEnabled |-> TRUE,
     twice |-> FALSE, firstBefore |-> <<>>]

InitSite ==
    /\ storage = [exists |-> FALSE, items |-> <<>>, nextOrder |-> 0,
                  hasDisabledDomains |-> FALSE, disabledDomains |-> <<>>]
    /\ tabs = [t \in TabIds |-> [url |-> UndefinedUrl]]
    /\ tabMsg = [t \in TabIds |-> [sent |-> FALSE, enabled |-> TRUE]]
    /\ sidebarMsg = [sent |-> FALSE, enabled |-> TRUE]
    /\ menuTitle = "Disable Notes Collector on this page"
    /\ lastToggle = NoToggle

InitMatch ==
    /\ url \in UrlPool
    /\ domains \in DomainLists
    /\ outcome = NotCalled
    /\ InitSite
    /\ InitImageIdle
    /\ InitBgIdle
    /\ InitPageIdle

CallIsUrlDisabled ==
    /\ ~outcome.called
    /\ outcome' = [called |-> TRUE] @@ isUrlDisabledCall(url, domains)
    /\ UNCHANGED <<url, domains>>
    /\ UNCHANGED siteVars
    /\ UNCHANGED imageVars
    /\ UNCHANGED bgVars
    /\ UNCHANGED pageVars

NextMatch == CallIsUrlDisabled

SpecMatch == InitMatch /\ [][NextMatch]_vars

-----------------------------------------------------------------------------
(* Claims about isUrlDisabled, checked under SpecMatch.  The suffixes of a  *)
(* hostname are taken here from its characters, not from Split and Join.   *)

\* the trailing runs of h's dot-separated labels that have at least two labels:
\* they start at the hostname's start or right after a dot, and contain a dot
LabelRuns2(h) ==
    {SubSeq(h, k, Len(h)) : k \in {k \in 1..Len(h) :
        /\ (k = 1 \/ h[k - 1] = ".")
        /\ \E j \in k..Len(h) : h[j] = "."}}

\* the last label of h: what follows its last dot
LastLabel(h) ==
    LET dots == {k \in 1..Len(h) : h[k] = "."} IN
    IF dots = {} THEN h
    ELSE SubSeq(h, (CHOOSE k \in dots : \A j \in dots : j <= k) + 1, Len(h))

Member(D, x) == \E k \in DOMAIN D : D[k] = x

Parseable(u) == u.kind = "absolute"
InternalScheme(u) == Parseable(u) /\ u.protocol \in {"about:", "chrome:", "moz-extension:"}

\* C1: for a parseable URL of a non-internal scheme, isUrlDisabled returns true
\* if and only if some trailing run of at least two labels of the hostname,
\* joined with dots, is a member of D.
C1_SuffixMatchIff ==
    (outcome.called /\ Parseable(url) /\ ~InternalScheme(url)) =>
        /\ ~outcome.threw
        /\ outcome.value <=> (\E x \in LabelRuns2(url.hostname) : Member(domains, x))

\* C1 witness: a three-label hostname matched through its two-label parent only
C1_Witness ==
    /\ outcome.called /\ outcome.value
    /\ Parseable(url) /\ ~InternalScheme(url)
    /\ Cardinality(LabelRuns2(url.hostname)) = 2
    /\ ~Member(domains, url.hostname)

\* C2 (as claimed): an internal-scheme URL (about:, chrome:, moz-extension:)
\* yields true for every D, the empty list included.
C2_InternalAlwaysDisabled ==
    (outcome.called /\ InternalScheme(url)) => outcome.value

C10_MalformedIsEnabled ==
    (outcome.called /\ ~Parseable(url)) => (~outcome.threw /\ ~outcome.value)

\* C10 witness: new URL() has thrown inside the call (non-empty url, non-empty D)
C10_Witness ==
    /\ outcome.called /\ url = MalformedUrl /\ Len(domains) > 0
    /\ ~outcome.threw /\ ~outcome.value

-----------------------------------------------------------------------------
(* background/storage.ts *)

\* getStorageData: the stored record, or the default record when none is stored
getStorageData ==
    IF storage.exists THEN storage
    ELSE [exists |-> TRUE, items |-> <<>>, nextOrder |-> 0,
          hasDisabledDomains |-> TRUE, disabledDomains |-> <<>>]

\* storageData.disabledDomains || []
DisabledDomainsOf(storageData) ==
    IF storageData.hasDisabledDomains THEN storageData.disabledDomains ELSE <<>>

\* the disabled-domain list a handler reads now
StoredDomains == DisabledDomainsOf(getStorageData)

-----------------------------------------------------------------------------
(* background/contextMenu.ts *)

\* updateContextMenu(isDisabled): the title it sets
MenuTitleFor(isDisabled) ==
    IF isDisabled THEN "Enable Notes Collector on this page"
    ELSE "Disable Notes Collector on this page"

-----------------------------------------------------------------------------
(* background/handlers/siteEnabledHandler.ts *)

NotFound(hostname) == [index |-> -1, foundDomain |-> hostname]

\* (mutant) only the exact hostname is looked up, never a parent domain
RECURSIVE FindLoopExactOnly(_, _, _, _)
FindLoopExactOnly(hostname, parts, disabledDomains, i) ==
    IF i > 0 \/ i > Len(parts) - 2 THEN NotFound(hostname)
    ELSE LET domainToCheck == Join(SliceFrom(parts, i))
             foundIndex == IndexOf(disabledDomains, domainToCheck)
         IN IF foundIndex > -1
            THEN [index |-> foundIndex, foundDomain |-> domainToCheck]
            ELSE FindLoopExactOnly(hostname, parts, disabledDomains, i + 1)

\* (mutant) the loop does not break at the first match, so the last match
\* (the least specific suffix) is the one kept
RECURSIVE FindLoopNoBreak(_, _, _, _)
FindLoopNoBreak(hostname, parts, disabledDomains, i) ==
    IF i > Len(parts) - 2 THEN NotFound(hostname)
    ELSE LET domainToCheck == Join(SliceFrom(parts, i))
             foundIndex == IndexOf(disabledDomains, domainToCheck)
             later == FindLoopNoBreak(hostname, parts, disabledDomains, i + 1)
         IN IF later.index > -1 THEN later
            ELSE IF foundIndex > -1
            THEN [index |-> foundIndex, foundDomain |-> domainToCheck]
            ELSE later

\* the search loop of toggleSiteEnabled: index and foundDomain when it ends
RECURSIVE FindLoop(_, _, _, _)
FindLoop(hostname, parts, disabledDomains, i) ==
    IF i > Len(parts) - 2 THEN NotFound(hostname)
    ELSE LET domainToCheck == Join(SliceFrom(parts, i))
             foundIndex == IndexOf(disabledDomains, domainToCheck)
         IN IF foundIndex > -1
            THEN [index |-> foundIndex, foundDomain |-> domainToCheck]
            ELSE FindLoop(hostname, parts, disabledDomains, i + 1)

\* (mutant) disabling adds the parent domain of the hostname
ToggledDomainsPushParent(hostname, disabledDomains) ==
    LET parts == Split(hostname)
        found == FindLoop(hostname, parts, disabledDomains, 0)
    IN IF found.index > -1 THEN Splice(disabledDomains, found.index)
       ELSE Append(disabledDomains,
                   IF Len(parts) > 2 THEN Join(SliceFrom(parts, 1)) ELSE hostname)

\* the list toggleSiteEnabled saves: splice(index, 1) on a match, push(hostname) otherwise
ToggledDomains(hostname, disabledDomains) ==
    LET found == FindLoop(hostname, Split(hostname), disabledDomains, 0)
    IN IF found.index > -1 THEN Splice(disabledDomains, found.index)
       ELSE Append(disabledDomains, hostname)

\* a call that changes nothing: phase "returned" (tab.url is falsy) or "caught"
\* (browser.tabs.get or new URL threw and the catch logged it)
ToggleNoOp(phase) ==
    /\ lastToggle' = [NoToggle EXCEPT !.phase = phase]
    /\ UNCHANGED <<storage, tabs, tabMsg, sidebarMsg, menuTitle>>

\* (mutant) toggleSiteEnabled without its try/catch: a rejected browser.tabs.get
\* or a throwing new URL leaves the handler as an exception (phase "threw")
toggleSiteEnabledNoCatch(tabId) ==
    IF tabId \notin DOMAIN tabs THEN ToggleNoOp("threw")
    ELSE IF Falsy(tabs[tabId].url) THEN ToggleNoOp("returned")
    ELSE IF NewURL(tabs[tabId].url).threw THEN ToggleNoOp("threw")
    ELSE
    LET newDomains == ToggledDomains(NewURL(tabs[tabId].url).hostname, StoredDomains)
    IN
    /\ Len(newDomains) <= MaxStored
    /\ storage' = [getStorageData EXCEPT !.hasDisabledDomains = TRUE,
                                         !.disabledDomains = newDomains]
    /\ tabMsg' = [t \in DOMAIN tabs |->
                     IF ~Falsy(tabs[t].url)
                     THEN [sent |-> TRUE, enabled |-> ~isUrlDisabled(tabs[t].url, newDomains)]
                     ELSE tabMsg[t]]
    /\ menuTitle' = MenuTitleFor(isUrlDisabled(tabs[tabId].url, newDomains))
    /\ sidebarMsg' = [sent |-> TRUE, enabled |-> ~isUrlDisabled(tabs[tabId].url, newDomains)]
    /\ lastToggle' = [NoToggle EXCEPT !.phase = "done", !.url = tabs[tabId].url,
                                      !.before = StoredDomains, !.after = newDomains]
    /\ UNCHANGED tabs

\* toggleSiteEnabled(tabId), the whole handler; browser.storage.local.set and
\* browser.tabs.query are taken to succeed
toggleSiteEnabled(tabId) ==
    IF tabId \notin DOMAIN tabs THEN ToggleNoOp("caught")
    ELSE LET tab == tabs[tabId] IN
    IF Falsy(tab.url) THEN ToggleNoOp("returned")
    ELSE IF NewURL(tab.url).threw THEN ToggleNoOp("caught")
    ELSE
    LET hostname == NewURL(tab.url).hostname
        storageData == getStorageData
        disabledDomains == DisabledDomainsOf(storageData)
        newDomains == ToggledDomains(hostname, disabledDomains)
        isCurrentlyDisabled == isUrlDisabled(tab.url, newDomains)
        \* history: the call before this one also ran to its end, on the same hostname
        second == lastToggle.phase = "done" /\ lastToggle.url.hostname = hostname
        sends == [t \in DOMAIN tabs |->
                     IF ~Falsy(tabs[t].url)
                     THEN [sent |-> TRUE, enabled |-> ~isUrlDisabled(tabs[t].url, newDomains)]
                     ELSE tabMsg[t]]
    IN
    /\ Len(newDomains) <= MaxStored
    /\ storage' = [storageData EXCEPT !.hasDisabledDomains = TRUE,
                                      !.disabledDomains = newDomains]
    /\ tabMsg' = sends
    /\ menuTitle' = MenuTitleFor(isCurrentlyDisabled)
    /\ sidebarMsg' = [sent |-> TRUE, enabled |-> ~isCurrentlyDisabled]
    /\ lastToggle' =
          [phase |-> "done", url |-> tab.url,
           before |-> disabledDomains, after |-> newDomains,
           tabEnabled |-> sends[tabId].enabled,
           sidebarEnabled |-> ~isCurrentlyDisabled,
           twice |-> second,
           firstBefore |-> IF second THEN lastToggle.before ELSE <<>>]
    /\ UNCHANGED tabs

-----------------------------------------------------------------------------
(* Spec: the stored record and the open tabs under toggles *)

\* hostnames of the open tabs: at each depth the subdomain a.(...).a.b of a.b
\* and one sibling of it that starts with label b
TabHosts ==
    {h \in Hosts : \A k \in 2..Len(h) :
        h[k] = (IF k = Len(h) THEN "b" ELSE IF k % 2 = 0 THEN "." ELSE "a")}

TabUrlPool ==
    {AbsUrl("https:", h) : h \in TabHosts}
        \cup {AbsUrl("chrome:", <<"a">>), UndefinedUrl, MalformedUrl}

StoredAtStart ==
    {[exists |-> FALSE, items |-> <<>>, nextOrder |-> 0,
      hasDisabledDomains |-> FALSE, disabledDomains |-> <<>>],
     [exists |-> TRUE, items |-> <<>>, nextOrder |-> 0,
      hasDisabledDomains |-> FALSE, disabledDomains |-> <<>>],
     [exists |-> TRUE, items |-> <<>>, nextOrder |-> 0,
      hasDisabledDomains |-> TRUE, disabledDomains |-> <<>>]}

Init ==
    /\ url = EmptyUrl
    /\ domains = <<>>
    /\ outcome = NotCalled
    /\ storage \in StoredAtStart
    /\ tabs \in [TabIds -> [url : TabUrlPool]]
    /\ tabMsg = [t \in TabIds |-> [sent |-> FALSE, enabled |-> TRUE]]
    /\ sidebarMsg = [sent |-> FALSE, enabled |-> TRUE]
    /\ menuTitle = MenuTitleFor(FALSE)
    /\ lastToggle = NoToggle
    /\ InitImageIdle
    /\ InitBgIdle
    /\ InitPageIdle

Toggle ==
    /\ \E tabId \in TabIds \cup {ClosedTabId} : toggleSiteEnabled(tabId)
    /\ UNCHANGED matchVars
    /\ UNCHANGED imageVars
    /\ UNCHANGED bgVars
    /\ UNCHANGED pageVars

Next == Toggle

Spec == Init /\ [][Next]_vars

-----------------------------------------------------------------------------
(* Claims about toggleSiteEnabled, checked under Spec.  lastToggle holds the *)
(* tab URL of the last call, the list it read (before), the list it saved  *)
(* (after) and the enabled flags it sent to that tab and to the sidebar;   *)
(* twice says that the call before it ran on the same hostname, and        *)
(* firstBefore is then the list that earlier call read.                    *)

Toggled == lastToggle.phase = "done"

\* some trailing run of two or more labels of the hostname is an entry of D
SuffixIn(h, D) == \E x \in LabelRuns2(h) : Member(D, x)

\* the entries of D, as a set
Entries(D) == {D[k] : k \in DOMAIN D}

\* D with its k-th entry (counted from 1) taken out
Without(D, k) == [j \in 1..(Len(D) - 1) |-> IF j < k THEN D[j] ELSE D[j + 1]]

\* C3 (as claimed): after a toggle on a tab whose URL was enabled, the URL is
\* disabled under the saved list and the tab and the sidebar are told
\* enabled = false, for every hostname, one-label hostnames included.
C3_ToggleDisables ==
    (Toggled /\ ~isUrlDisabled(lastToggle.url, lastToggle.before)) =>
        /\ lastToggle.after = StoredDomains
        /\ isUrlDisabled(lastToggle.url, StoredDomains)
        /\ ~lastToggle.tabEnabled
        /\ ~lastToggle.sidebarEnabled

\* C4 (as claimed): after a toggle on a tab whose URL was disabled (a suffix of
\* its hostname was stored), the URL is enabled under the saved list and the tab
\* and the sidebar are told enabled = true, whatever list toggles have produced.
C4_ToggleEnables ==
    (Toggled /\ SuffixIn(lastToggle.url.hostname, lastToggle.before)) =>
        /\ lastToggle.after = StoredDomains
        /\ ~isUrlDisabled(lastToggle.url, StoredDomains)
        /\ lastToggle.tabEnabled
        /\ lastToggle.sidebarEnabled

\* C5 (as claimed): two toggles in sequence on tabs of the same hostname, from a
\* stored list with no entry other than that hostname, leave the stored list
\* equal to the list before the first of them, for every hostname.
C5_ToggleTwiceRestores ==
    (/\ Toggled /\ lastToggle.twice
     /\ Entries(lastToggle.firstBefore) \subseteq {lastToggle.url.hostname})
        => StoredDomains = lastToggle.firstBefore

\* C6: when the stored list holds only a parent domain P of two or more labels
\* and the toggled tab's hostname is a strict subdomain of P, the entry P is
\* removed and nothing is added; afterwards isUrlDisabled is false for the
\* child, for P and for every other subdomain of P.
C6_ChildToggleRemovesParent ==
    \A P \in Hosts :
        (/\ Toggled
         /\ lastToggle.before = <<P>>
         /\ P \in LabelRuns2(lastToggle.url.hostname)
         /\ P # lastToggle.url.hostname)
        => /\ lastToggle.after = <<>>
           /\ StoredDomains = <<>>
           /\ ~isUrlDisabled(lastToggle.url, StoredDomains)
           /\ \A u \in WebUrls :
                 (u.hostname = P \/ P \in LabelRuns2(u.hostname))
                     => ~isUrlDisabled(u, StoredDomains)

\* C6 witness: such a toggle has run
C6_Witness ==
    /\ Toggled
    /\ Len(lastToggle.before) = 1
    /\ lastToggle.before[1] \in LabelRuns2(lastToggle.url.hostname)
    /\ lastToggle.before[1] # lastToggle.url.hostname
    /\ StoredDomains = <<>>

\* the longest of the stored suffixes of hostname h: the most specific match
MostSpecific(h, D) ==
    CHOOSE x \in LabelRuns2(h) :
        Member(D, x) /\ \A y \in LabelRuns2(h) : Member(D, y) => Len(y) <= Len(x)

\* C7: when several suffixes of the toggled hostname are stored, exactly one
\* entry is removed, the most specific stored suffix (the first match going from
\* the full hostname to the two-label suffix); every other entry, a less
\* specific matching ancestor included, stays in the list.
C7_RemovesFirstMatchOnly ==
    LET h == lastToggle.url.hostname
        D == lastToggle.before
    IN (Toggled /\ Cardinality({x \in LabelRuns2(h) : Member(D, x)}) >= 2) =>
        /\ lastToggle.after = StoredDomains
        /\ \E k \in DOMAIN D :
              D[k] = MostSpecific(h, D) /\ StoredDomains = Without(D, k)
        /\ \A y \in LabelRuns2(h) :
              (Member(D, y) /\ y # MostSpecific(h, D)) => Member(StoredDomains, y)

\* C7 witness: the hostname and an ancestor of it were both stored at the toggle
C7_Witness ==
    /\ Toggled
    /\ Cardinality({x \in LabelRuns2(lastToggle.url.hostname) :
                       Member(lastToggle.before, x)}) >= 2
    /\ Len(StoredDomains) = Len(lastToggle.before) - 1

\* C8: when no suffix of the toggled hostname is stored, exactly one entry is
\* added, the full hostname of the tab URL (never a shorter suffix), and every
\* entry stored before is left as it was.
C8_DisableAddsExactHostname ==
    LET h == lastToggle.url.hostname
        D == lastToggle.before
    IN (Toggled /\ ~SuffixIn(h, D)) =>
        /\ lastToggle.after = StoredDomains
        /\ Len(StoredDomains) = Len(D) + 1
        /\ SubSeq(StoredDomains, 1, Len(D)) = D
        /\ StoredDomains[Len(D) + 1] = h

\* C8 witness: a three-label hostname was added to a list that held an entry
C8_Witness ==
    /\ Toggled
    /\ ~SuffixIn(lastToggle.url.hostname, lastToggle.before)
    /\ Cardinality(LabelRuns2(lastToggle.url.hostname)) = 2
    /\ Len(lastToggle.before) >= 1
    /\ Len(StoredDomains) = Len(lastToggle.before) + 1

\* C11: toggleSiteEnabled on a tab whose URL is missing or cannot be parsed is
\* a no-op: the stored record is not written, no SITE_ENABLED_CHANGED goes to a
\* tab or to the sidebar, and the handler ends by its return or in its own
\* catch, so that no exception reaches the caller.
C11_ToggleBadUrlNoOp ==
    [][\A t \in TabIds :
          (~Parseable(tabs[t].url) /\ toggleSiteEnabled(t)) =>
              /\ UNCHANGED <<storage, tabMsg, sidebarMsg, menuTitle>>
              /\ lastToggle'.phase \in {"returned", "caught"}]_vars

\* C11 witness: new URL threw in a call made after a toggle that stored an entry
\* and notified; the entry and the notifications are as that toggle left them
C11_Witness ==
    /\ lastToggle.phase = "caught"
    /\ \E t \in TabIds : tabs[t].url = MalformedUrl
    /\ Len(StoredDomains) > 0
    /\ sidebarMsg.sent

-----------------------------------------------------------------------------
(* content/content.ts: isPlaceholderImage and findBestImage.  An img element *)
(* is the record of the properties the two functions read.  Its src is a    *)
(* sequence of parts, so that startsWith is computed; getAttribute gives    *)
(* "null" for an attribute the element does not have.                       *)

StartsWith(s, prefix) ==
    Len(s) >= Len(prefix) /\ SubSeq(s, 1, Len(prefix)) = prefix

SvgDataPrefix == <<"data:", "image/svg+xml">>

EmptySrc == <<>>
SvgDataSrc == <<"data:", "image/svg+xml", ",%3Csvg/%3E">>
PngDataSrc == <<"data:", "image/png", ";base64,iVBOR">>
HttpSrc == <<"https:", "//cdn.example/photo.jpg">>

\* JavaScript truthiness of a string-or-null value
Truthy(v) == v # "" /\ v # "null"

\* (mutant) isPlaceholderImage without the img.complete conjunct
isPlaceholderImageIgnoringComplete(i) ==
    IF i.ariaHidden = "true" THEN TRUE
    ELSE IF StartsWith(i.src, SvgDataPrefix) THEN TRUE
    ELSE IF i.naturalWidth = 0 /\ i.naturalHeight = 0 THEN TRUE
    ELSE FALSE

\* isPlaceholderImage(img); the refactored copy at 828-833 is the same test
isPlaceholderImage(i) ==
    IF i.ariaHidden = "true" THEN TRUE
    ELSE IF StartsWith(i.src, SvgDataPrefix) THEN TRUE
    ELSE IF i.complete /\ i.naturalWidth = 0 /\ i.naturalHeight = 0 THEN TRUE
    ELSE FALSE

\* (mutant) the dimension term with the layout size tested first
DimensionScoreLayoutFirst(i) ==
    IF i.offsetWidth > 0 /\ i.offsetHeight > 0 THEN 20
    ELSE IF i.naturalWidth > 0 /\ i.naturalHeight > 0 THEN 30
    ELSE 0

\* the dimension term of the score: natural size first, layout size otherwise
DimensionScore(i) ==
    IF i.naturalWidth > 0 /\ i.naturalHeight > 0 THEN 30
    ELSE IF i.offsetWidth > 0 /\ i.offsetHeight > 0 THEN 20
    ELSE 0

\* (mutant) the score of lines 137-170 without its not-placeholder term
ScoreNoPlaceholderTerm(i) ==
    (IF ~StartsWith(i.src, SvgDataPrefix) THEN 50 ELSE 0)
    + DimensionScore(i)
    + (IF Truthy(i.alt) \/ Truthy(i.title) THEN 10 ELSE 0)
    + (IF i.ariaHidden # "true" THEN 5 ELSE 0)

\* the score of one candidate, content.ts 137-170
Score(i) ==
    (IF ~isPlaceholderImage(i) THEN 100 ELSE 0)
    + (IF ~StartsWith(i.src, SvgDataPrefix) THEN 50 ELSE 0)
    + DimensionScore(i)
    + (IF Truthy(i.alt) \/ Truthy(i.title) THEN 10 ELSE 0)
    + (IF i.ariaHidden # "true" THEN 5 ELSE 0)

\* the score of one candidate in the refactored findBestImage, 865-879
ScoreRefactored(i) ==
    (IF isPlaceholderImage(i) THEN 0 - 50 ELSE 50)
    + DimensionScore(i)
    + (IF Truthy(i.alt) \/ Truthy(i.title) THEN 10 ELSE 0)
    + (IF i.ariaHidden # "true" THEN 5 ELSE 0)

\* (mutant) the scoring loop with score >= bestScore
RECURSIVE BestLoopLastWins(_, _, _, _, _)
BestLoopLastWins(imgs, candidates, k, bestImage, bestScore) ==
    IF k > Len(candidates) THEN bestImage
    ELSE IF imgs[candidates[k]].src = EmptySrc
         THEN BestLoopLastWins(imgs, candidates, k + 1, bestImage, bestScore)
    ELSE IF Score(imgs[candidates[k]]) >= bestScore
         THEN BestLoopLastWins(imgs, candidates, k + 1, candidates[k],
                               Score(imgs[candidates[k]]))
    ELSE BestLoopLastWins(imgs, candidates, k + 1, bestImage, bestScore)

\* the scoring loop of lines 134-182 from candidate k on; candidates are
\* positions in imgs, bestImage 0 is null
RECURSIVE BestLoop(_, _, _, _, _)
BestLoop(imgs, candidates, k, bestImage, bestScore) ==
    IF k > Len(candidates) THEN bestImage
    ELSE IF imgs[candidates[k]].src = EmptySrc
         THEN BestLoop(imgs, candidates, k + 1, bestImage, bestScore)
    ELSE IF Score(imgs[candidates[k]]) > bestScore
         THEN BestLoop(imgs, candidates, k + 1, candidates[k], Score(imgs[candidates[k]]))
    ELSE BestLoop(imgs, candidates, k + 1, bestImage, bestScore)

\* the scoring loop of the refactored findBestImage, lines 862-886
RECURSIVE BestLoopRefactored(_, _, _, _, _)
BestLoopRefactored(imgs, candidates, k, bestImage, bestScore) ==
    IF k > Len(candidates) THEN bestImage
    ELSE IF imgs[candidates[k]].src = EmptySrc
         THEN BestLoopRefactored(imgs, candidates, k + 1, bestImage, bestScore)
    ELSE IF ScoreRefactored(imgs[candidates[k]]) > bestScore
         THEN BestLoopRefactored(imgs, candidates, k + 1, candidates[k],
                                 ScoreRefactored(imgs[candidates[k]]))
    ELSE BestLoopRefactored(imgs, candidates, k + 1, bestImage, bestScore)

\* element.querySelectorAll('img') of startElement's ancestor at the given
\* level, as positions in the document's images: an img has no descendants
\* (level 0), the first inr images lie under its parentElement (level 1) and
\* all n under that element's parentElement (level 2), which has no parent
QuerySelectorAllImg(n, inr, level) ==
    IF level = 0 THEN <<>>
    ELSE IF level = 1 THEN [k \in 1..inr |-> k]
    ELSE [k \in 1..n |-> k]

\* Array.from(new Set(list)): the first occurrence of each element, in order
RECURSIVE Unique(_)
Unique(list) ==
    IF list = <<>> THEN <<>>
    ELSE LET front == Unique(SubSeq(list, 1, Len(list) - 1))
             last == list[Len(list)]
         IN IF \E k \in DOMAIN front : front[k] = last THEN front
            ELSE Append(front, last)

\* images.forEach(img => { if (!candidates.includes(img)) candidates.push(img) })
AddMissing(candidates, found) == Unique(candidates \o found)

\* the candidates of findBestImage for an img startElement, lines 106-126
Candidates(n, inr, start) ==
    Unique(<<start>> \o QuerySelectorAllImg(n, inr, 1) \o QuerySelectorAllImg(n, inr, 0))

MaxCandidates == 5

\* the while loop of lines 850-856 from the ancestor at the given level on
RECURSIVE GatherUp(_, _, _, _)
GatherUp(n, inr, level, candidates) ==
    IF level > 2 \/ ~(Len(candidates) < MaxCandidates) THEN candidates
    ELSE GatherUp(n, inr, level + 1,
                  AddMissing(candidates, QuerySelectorAllImg(n, inr, level)))

\* the candidates of the refactored findBestImage for an img startElement
CandidatesRefactored(n, inr, start) == GatherUp(n, inr, 0, <<start>>)

\* completion of findBestImage: the position of the returned image, 0 for null
Found(k) == [threw |-> FALSE, index |-> k]
TypeError == [threw |-> TRUE, index |-> 0]

\* (mutant) findBestImage without the guard of lines 101-103: reading tagName
\* of null throws
findBestImageNoNullCheck(imgs, inr, start) ==
    IF start = 0 THEN TypeError
    ELSE Found(BestLoop(imgs, Candidates(Len(imgs), inr, start), 1, 0, 0 - 1))

\* findBestImage(startElement), content.ts 100-190
findBestImage(imgs, inr, start) ==
    IF start = 0 THEN Found(0)
    ELSE Found(BestLoop(imgs, Candidates(Len(imgs), inr, start), 1, 0, 0 - 1))

\* findBestImage(startElement) as refactored, content.ts 838-890
findBestImageRefactored(imgs, inr, start) ==
    IF start = 0 THEN Found(0)
    ELSE LET candidates == CandidatesRefactored(Len(imgs), inr, start) IN
         IF Len(candidates) = 0 THEN Found(0)
         ELSE Found(BestLoopRefactored(imgs, candidates, 1, 0, 0 - 1))

-----------------------------------------------------------------------------
(* SpecPlaceholder: isPlaceholderImage as a pure function of one element.  *)
(* SpecImage: findBestImage, in both versions, over a small document.      *)

MaxImages == 2

InitMatchIdle ==
    /\ url = EmptyUrl
    /\ domains = <<>>
    /\ outcome = NotCalled

\* every combination of the properties isPlaceholderImage reads, with the
\* layout size as well
PlaceholderPool ==
    [src : {EmptySrc, SvgDataSrc, PngDataSrc, HttpSrc},
     ariaHidden : {"null", "true", "false"},
     complete : BOOLEAN,
     naturalWidth : {0, 640}, naturalHeight : {0, 480},
     offsetWidth : {0, 320}, offsetHeight : {0, 240},
     alt : {""}, title : {"null"}]

InitPlaceholder ==
    /\ InitMatchIdle
    /\ InitSite
    /\ img \in PlaceholderPool
    /\ placeholder = NotCalled
    /\ images = <<>>
    /\ inner = 0
    /\ startElement = 0
    /\ best = NotSearched
    /\ bestRefactored = NotSearched
    /\ InitBgIdle
    /\ InitPageIdle

CallIsPlaceholderImage ==
    /\ ~placeholder.called
    /\ placeholder' = [called |-> TRUE, threw |-> FALSE, value |-> isPlaceholderImage(img)]
    /\ UNCHANGED <<img, images, inner, startElement, best, bestRefactored>>
    /\ UNCHANGED <<matchVars, siteVars, bgVars, pageVars>>

NextPlaceholder == CallIsPlaceholderImage

SpecPlaceholder == InitPlaceholder /\ [][NextPlaceholder]_vars

\* how far an image has loaded and whether it takes up room in the layout
LoadStates ==
    {[complete |-> TRUE, naturalWidth |-> 640, naturalHeight |-> 480,
      offsetWidth |-> 320, offsetHeight |-> 240],
     [complete |-> TRUE, naturalWidth |-> 0, naturalHeight |-> 0,
      offsetWidth |-> 320, offsetHeight |-> 240],
     [complete |-> TRUE, naturalWidth |-> 0, naturalHeight |-> 0,
      offsetWidth |-> 0, offsetHeight |-> 0],
     [complete |-> FALSE, naturalWidth |-> 0, naturalHeight |-> 0,
      offsetWidth |-> 320, offsetHeight |-> 240],
     [complete |-> FALSE, naturalWidth |-> 0, naturalHeight |-> 0,
      offsetWidth |-> 0, offsetHeight |-> 0]}

\* the img elements a document is drawn from: one without src, inline SVG
\* images (a data URI is decoded at once, so they are complete), and images
\* from the network with or without aria-hidden="true"
ImagePool ==
    {BlankImage} \cup
    {i \in {[src |-> sa[1], ariaHidden |-> sa[2], complete |-> l.complete,
             naturalWidth |-> l.naturalWidth, naturalHeight |-> l.naturalHeight,
             offsetWidth |-> l.offsetWidth, offsetHeight |-> l.offsetHeight,
             alt |-> t, title |-> "null"] :
               sa \in {<<SvgDataSrc, "null">>, <<HttpSrc, "null">>, <<HttpSrc, "true">>},
               l \in LoadStates, t \in {"", "photo"}} :
        i.src = SvgDataSrc => i.complete}

\* startElement is null or one of the images under its own parentElement,
\* as at the three call sites of content.ts 277-302
InitImage ==
    /\ InitMatchIdle
    /\ InitSite
    /\ img = BlankImage
    /\ placeholder = NotCalled
    /\ images \in SeqsUpTo(ImagePool, MaxImages)
    /\ startElement \in 0..Len(images)
    /\ inner \in IF startElement = 0 THEN {0} ELSE startElement..Len(images)
    /\ best = NotSearched
    /\ bestRefactored = NotSearched
    /\ InitBgIdle
    /\ InitPageIdle

CallFindBestImage ==
    /\ ~best.called
    /\ best' = [called |-> TRUE] @@ findBestImage(images, inner, startElement)
    /\ UNCHANGED <<img, placeholder, images, inner, startElement, bestRefactored>>
    /\ UNCHANGED <<matchVars, siteVars, bgVars, pageVars>>

CallFindBestImageRefactored ==
    /\ ~bestRefactored.called
    /\ bestRefactored' =
           [called |-> TRUE] @@ findBestImageRefactored(images, inner, startElement)
    /\ UNCHANGED <<img, placeholder, images, inner, startElement, best>>
    /\ UNCHANGED <<matchVars, siteVars, bgVars, pageVars>>

NextImage == CallFindBestImage \/ CallFindBestImageRefactored

SpecImage == InitImage /\ [][NextImage]_vars

-----------------------------------------------------------------------------
(* Claims about isPlaceholderImage and findBestImage.  The placeholder rule *)
(* and the additive score are written here from the statements, and not     *)
(* taken from isPlaceholderImage and Score.                                 *)

InlineSvg(i) == Len(i.src) >= 2 /\ i.src[1] = "data:" /\ i.src[2] = "image/svg+xml"
HasNaturalSize(i) == i.naturalWidth # 0 /\ i.naturalHeight # 0
HasLayoutSize(i) == i.offsetWidth # 0 /\ i.offsetHeight # 0
Described(i) == i.alt \notin {"", "null"} \/ i.title \notin {"", "null"}
AriaHidden(i) == i.ariaHidden = "true"

PlaceholderByRule(i) ==
    \/ AriaHidden(i)
    \/ InlineSvg(i)
    \/ (i.complete /\ i.naturalWidth = 0 /\ i.naturalHeight = 0)

AdditiveScore(i) ==
    (IF PlaceholderByRule(i) THEN 0 ELSE 100)
    + (IF InlineSvg(i) THEN 0 ELSE 50)
    + (IF HasNaturalSize(i) THEN 30 ELSE IF HasLayoutSize(i) THEN 20 ELSE 0)
    + (IF Described(i) THEN 10 ELSE 0)
    + (IF AriaHidden(i) THEN 0 ELSE 5)

\* the candidates of the call in this state, and the positions in that list of
\* those with a non-empty src
Gathered == Candidates(Len(images), inner, startElement)
GatheredRefactored == CandidatesRefactored(Len(images), inner, startElement)
WithSrc(c) == {k \in DOMAIN c : images[c[k]].src # <<>>}

\* C15: findBestImage returns, among the gathered candidates with a non-empty
\* src, one of the highest additive score, and of several with that score the
\* first in candidate order (null when there is none with a src).
C15_HighestScoreFirstWins ==
    (best.called /\ startElement # 0) =>
        IF WithSrc(Gathered) = {} THEN best.index = 0
        ELSE \E k \in WithSrc(Gathered) :
                /\ best.index = Gathered[k]
                /\ \A j \in WithSrc(Gathered) :
                      /\ AdditiveScore(images[Gathered[j]]) <= AdditiveScore(images[Gathered[k]])
                      /\ j < k => AdditiveScore(images[Gathered[j]])
                                      < AdditiveScore(images[Gathered[k]])

\* C15 witness: the two images of the document tie on the highest score, the
\* start element is the later one in the document and is returned as the
\* first candidate
C15_Witness ==
    /\ best.called /\ startElement = 2 /\ inner = 2
    /\ images[1].src # <<>> /\ images[1] # images[2]
    /\ AdditiveScore(images[1]) = AdditiveScore(images[2])
    /\ best.index = 2

\* C16: neither version of findBestImage returns a placeholder when a
\* non-placeholder with a non-empty src is among its candidates.
C16_NeverPlaceholderOverReal ==
    /\ (best.called /\ startElement # 0
          /\ \E k \in WithSrc(Gathered) : ~PlaceholderByRule(images[Gathered[k]]))
       => (best.index # 0 /\ ~PlaceholderByRule(images[best.index]))
    /\ (bestRefactored.called /\ startElement # 0
          /\ \E k \in WithSrc(GatheredRefactored) :
                ~PlaceholderByRule(images[GatheredRefactored[k]]))
       => (bestRefactored.index # 0 /\ ~PlaceholderByRule(images[bestRefactored.index]))

\* C16 witness: the start element is a described placeholder with both sizes,
\* the other image is still loading, takes no room and has no description;
\* both versions return the other image
C16_Witness ==
    /\ best.called /\ bestRefactored.called
    /\ startElement = 1 /\ inner = 2
    /\ PlaceholderByRule(images[1]) /\ ~InlineSvg(images[1])
    /\ HasNaturalSize(images[1]) /\ Described(images[1])
    /\ images[2].src # <<>> /\ ~PlaceholderByRule(images[2])
    /\ ~HasLayoutSize(images[2]) /\ ~Described(images[2])
    /\ best.index = 2 /\ bestRefactored.index = 2

\* a has natural dimensions, b only layout dimensions, and they agree on every
\* other scored attribute
NaturalAgainstLayout(a, b) ==
    /\ HasNaturalSize(a) /\ ~HasNaturalSize(b) /\ HasLayoutSize(b)
    /\ PlaceholderByRule(a) = PlaceholderByRule(b)
    /\ InlineSvg(a) = InlineSvg(b)
    /\ Described(a) = Described(b)
    /\ AriaHidden(a) = AriaHidden(b)

\* C17: of two candidates with a src that agree on every other scored
\* attribute, one with natural and one with layout dimensions only,
\* findBestImage never returns the second, and returns the first when the two
\* are all the candidates with a src, in either order.
C17_NaturalBeatsLayout ==
    (best.called /\ startElement # 0) =>
        \A a, b \in WithSrc(Gathered) :
            NaturalAgainstLayout(images[Gathered[a]], images[Gathered[b]]) =>
                /\ best.index # Gathered[b]
                /\ WithSrc(Gathered) = {a, b} => best.index = Gathered[a]

\* C17 witness: the image with layout dimensions only is the first candidate
C17_Witness ==
    /\ best.called /\ startElement = 1 /\ inner = 2
    /\ images[1].src # <<>> /\ images[2].src # <<>>
    /\ NaturalAgainstLayout(images[2], images[1])
    /\ best.index = 2

\* C18: findBestImage returns null for a null start element and when no
\* gathered candidate has a non-empty src, and throws in neither case.
C18_NullWithoutCandidate ==
    best.called =>
        /\ startElement = 0 => (~best.threw /\ best.index = 0)
        /\ (startElement # 0 /\ WithSrc(Gathered) = {}) => (~best.threw /\ best.index = 0)

\* C18 witness: no image under the start element's parent has a src, an image
\* further out has one, and the result is null
C18_Witness ==
    /\ best.called /\ ~best.threw /\ best.index = 0
    /\ startElement = 1 /\ inner = 1 /\ Len(images) = 2
    /\ images[2].src # <<>>

\* C19: isPlaceholderImage is true exactly when the image is aria-hidden
\* "true", or its src starts with data:image/svg+xml, or it is complete with
\* natural width 0 and natural height 0; an image not yet loaded with zero
\* dimensions and neither of the first two marks is not a placeholder.
C19_PlaceholderIff ==
    placeholder.called =>
        /\ ~placeholder.threw
        /\ placeholder.value <=> PlaceholderByRule(img)
        /\ (~img.complete /\ img.naturalWidth = 0 /\ img.naturalHeight = 0
              /\ ~AriaHidden(img) /\ ~InlineSvg(img)) => ~placeholder.value

\* C19 witness: an image still loading, of zero dimensions, aria-hidden="false"
\* and with a PNG data URI, is not a placeholder
C19_Witness ==
    /\ placeholder.called /\ ~placeholder.value
    /\ ~img.complete /\ img.naturalWidth = 0 /\ img.naturalHeight = 0
    /\ img.ariaHidden = "false" /\ img.src = PngDataSrc

-----------------------------------------------------------------------------
(* The background service worker's handlers, one action per stretch of a    *)
(* handler between two awaits.  A handler invocation lives in a slot of     *)
(* calls; its record keeps its locals and what it has sent and answered.    *)

MAX_ITEMS == 1000

\* saveStorageData(data): browser.storage.local.set of the whole record
saveStorageData(data) == [data EXCEPT !.exists = TRUE]

\* info.itemCount of getStorageInfo, read from storage when it is called
ItemCount == IF storage.exists THEN Len(storage.items) ELSE 0

\* checkStorageAvailable(estimatedSize): the name of the error it throws, or
\* "ok"; overQuota stands for projectedUsage >= info.quotaBytes
checkStorageAvailable(itemCount, overQuota) ==
    IF itemCount >= MAX_ITEMS THEN "ItemLimitError"
    ELSE IF overQuota THEN "StorageQuotaError"
    ELSE "ok"

Running(c) == calls[c].pc # "done"

\* the slot a new invocation takes: the lowest one with no handler in progress
FreeSlot == CHOOSE c \in CallIds : ~Running(c) /\ \A d \in CallIds : d < c => Running(d)

\* a message is taken up: at any time when overlap is set, otherwise only when
\* no handler is in progress
MayBegin ==
    /\ started < MaxOps
    /\ \E c \in CallIds : ~Running(c)
    /\ overlap \/ \A c \in CallIds : ~Running(c)

Begin(call) ==
    /\ calls' = [calls EXCEPT ![FreeSlot] = call]
    /\ started' = started + 1

\* the value the catch block of a capture handler returns
Failure(error) == [success |-> FALSE, error |-> error]
Success == [success |-> TRUE, error |-> "none"]

CaptureKinds == {"link", "image", "text", "screenshot"}

\* the tabs whose content script would send a capture request now: it listens
\* and its isEnabled, the enabled of the last SITE_ENABLED_CHANGED it got or
\* true, is set (content.ts 7, 22-36, 232-245)
CapturingTabs == {t \in listening : tabMsg[t].enabled}

\* handleCaptureLink/Image/Text/Screenshot up to the end of
\* await checkStorageAvailable(...); tab is the tab whose content script sent
\* the request; n = 1 marks a screenshot request whose sourceUrl new URL
\* cannot parse
CaptureCheck ==
    /\ MayBegin
    /\ \E kind \in CaptureKinds, overQuota \in BOOLEAN, badSource \in BOOLEAN,
          tab \in CapturingTabs :
          LET checked == checkStorageAvailable(ItemCount, overQuota) IN
          /\ badSource => kind = "screenshot"
          /\ Begin([IdleCall EXCEPT
                      !.op = kind,
                      !.tab = tab,
                      !.n = IF badSource THEN 1 ELSE 0,
                      !.itemCount = ItemCount,
                      !.pc = IF checked = "ok" THEN "read" ELSE "done",
                      !.response = IF checked = "ok" THEN NoResponse ELSE Failure(checked)])
    /\ UNCHANGED <<storage, uuids, overlap>>
    /\ UNCHANGED <<tabs, tabMsg, sidebarMsg, menuTitle, lastToggle, matchVars, imageVars, pageVars>>

\* ... from the result of await getStorageData() to the call of
\* saveStorageData: the new item takes storageData.nextOrder++ and is pushed
CaptureRead(c) ==
    /\ calls[c].op \in CaptureKinds /\ calls[c].pc = "read"
    /\ LET storageData == getStorageData
           newItem == [id |-> uuids + 1, order |-> storageData.nextOrder]
       IN IF calls[c].n = 1
          THEN calls' = [calls EXCEPT ![c].pc = "done", ![c].response = Failure("TypeError")]
          ELSE calls' = [calls EXCEPT
                   ![c].pc = "save",
                   ![c].item = newItem,
                   ![c].data = [storageData EXCEPT !.nextOrder = @ + 1,
                                                   !.items = Append(@, newItem)]]
    /\ uuids' = uuids + 1
    /\ UNCHANGED <<storage, started, overlap>>
    /\ UNCHANGED <<tabs, tabMsg, sidebarMsg, menuTitle, lastToggle, matchVars, imageVars, pageVars>>

\* ... browser.storage.local.set takes effect
CaptureSave(c) ==
    /\ calls[c].op \in CaptureKinds /\ calls[c].pc = "save"
    /\ storage' = saveStorageData(calls[c].data)
    /\ calls' = [calls EXCEPT ![c].pc = "notify"]
    /\ UNCHANGED <<started, uuids, overlap>>
    /\ UNCHANGED <<tabs, tabMsg, sidebarMsg, menuTitle, lastToggle, matchVars, imageVars, pageVars>>

\* ... notifySidebar ITEM_ADDED and return { success: true, data: newItem }
CaptureNotify(c) ==
    /\ calls[c].op \in CaptureKinds /\ calls[c].pc = "notify"
    /\ calls' = [calls EXCEPT ![c].pc = "done", ![c].notified = "ITEM_ADDED",
                              ![c].response = Success]
    /\ UNCHANGED <<storage, started, uuids, overlap>>
    /\ UNCHANGED <<tabs, tabMsg, sidebarMsg, menuTitle, lastToggle, matchVars, imageVars, pageVars>>

\* how the frame of a background step is left alone
SiteUntouched == UNCHANGED <<tabs, tabMsg, sidebarMsg, menuTitle, lastToggle>>
OthersUntouched == UNCHANGED <<matchVars, imageVars, pageVars>>

\* a filter that drops the first item whenever the id is stored
WithoutFirst(items, id) ==
    IF \E k \in DOMAIN items : items[k].id = id THEN Tail(items) ELSE items

\* storageData.items.filter(item => item.id !== id)
WithoutId(items, id) == SelectSeq(items, LAMBDA item : item.id # id)

\* handleDeleteItem(id) up to the call of saveStorageData, or to its return of
\* 'Item not found' when the filter removed nothing
DeleteRead ==
    /\ MayBegin
    /\ \E id \in 0..uuids :
          LET storageData == getStorageData
              filtered == WithoutId(storageData.items, id)
          IN Begin(IF Len(filtered) # Len(storageData.items)
                   THEN [IdleCall EXCEPT !.op = "delete", !.pc = "save", !.n = id,
                                         !.data = [storageData EXCEPT !.items = filtered]]
                   ELSE [IdleCall EXCEPT !.op = "delete", !.pc = "done", !.n = id,
                                         !.response = Failure("Item not found")])
    /\ UNCHANGED <<storage, uuids, overlap>>
    /\ SiteUntouched /\ OthersUntouched

\* ... the set takes effect, ITEM_DELETED is sent and { success: true } returned
DeleteSave(c) ==
    /\ calls[c].op = "delete" /\ calls[c].pc = "save"
    /\ storage' = saveStorageData(calls[c].data)
    /\ calls' = [calls EXCEPT ![c].pc = "done", ![c].notified = "ITEM_DELETED",
                              ![c].response = Success]
    /\ UNCHANGED <<started, uuids, overlap>>
    /\ SiteUntouched /\ OthersUntouched

\* a drop that numbers the orders from 1
MoveItemFromOne(items, srcIndex, targetIndex) ==
    LET removed == Splice(items, srcIndex)
        moved == SubSeq(removed, 1, targetIndex) \o <<items[srcIndex + 1]>>
                     \o SubSeq(removed, targetIndex + 1, Len(removed))
    IN [k \in 1..Len(moved) |-> [moved[k] EXCEPT !.order = k]]

\* handleDrop of the sidebar: the item at srcIndex is spliced out and put in at
\* targetIndex (both counted from 0), then every item's order is its position
MoveItem(items, srcIndex, targetIndex) ==
    LET removed == Splice(items, srcIndex)
        moved == SubSeq(removed, 1, targetIndex) \o <<items[srcIndex + 1]>>
                     \o SubSeq(removed, targetIndex + 1, Len(removed))
    IN [k \in 1..Len(moved) |-> [moved[k] EXCEPT !.order = k - 1]]

\* the sidebar drops one item on another and sends REORDER_ITEMS with the list
\* it shows, taken here to be the stored one at that moment
ReorderSend ==
    /\ MayBegin
    /\ \E srcIndex, targetIndex \in 0..(Len(getStorageData.items) - 1) :
          /\ srcIndex # targetIndex
          /\ Begin([IdleCall EXCEPT !.op = "reorder", !.pc = "read",
                      !.list = MoveItem(getStorageData.items, srcIndex, targetIndex)])
    /\ UNCHANGED <<storage, uuids, overlap>>
    /\ SiteUntouched /\ OthersUntouched

\* handleReorderItems(items) from the result of getStorageData to saveStorageData
ReorderRead(c) ==
    /\ calls[c].op = "reorder" /\ calls[c].pc = "read"
    /\ calls' = [calls EXCEPT ![c].pc = "save",
                              ![c].data = [getStorageData EXCEPT !.items = calls[c].list]]
    /\ UNCHANGED <<storage, started, uuids, overlap>>
    /\ SiteUntouched /\ OthersUntouched

ReorderSave(c) ==
    /\ calls[c].op = "reorder" /\ calls[c].pc = "save"
    /\ storage' = saveStorageData(calls[c].data)
    /\ calls' = [calls EXCEPT ![c].pc = "done", ![c].response = Success]
    /\ UNCHANGED <<started, uuids, overlap>>
    /\ SiteUntouched /\ OthersUntouched

\* handleClearAll() up to the call of saveStorageData
ClearRead ==
    /\ MayBegin
    /\ Begin([IdleCall EXCEPT !.op = "clear", !.pc = "save",
                !.data = [getStorageData EXCEPT !.items = <<>>, !.nextOrder = 0]])
    /\ UNCHANGED <<storage, uuids, overlap>>
    /\ SiteUntouched /\ OthersUntouched

\* ... the set takes effect, ITEMS_CLEARED is sent and { success: true } returned
ClearSave(c) ==
    /\ calls[c].op = "clear" /\ calls[c].pc = "save"
    /\ storage' = saveStorageData(calls[c].data)
    /\ calls' = [calls EXCEPT ![c].pc = "done", ![c].notified = "ITEMS_CLEARED",
                              ![c].response = Success]
    /\ UNCHANGED <<started, uuids, overlap>>
    /\ SiteUntouched /\ OthersUntouched

\* toggleSiteEnabled(tabId) up to the call of saveStorageData, or to its end
\* when the tab has no url (response "returned") or tabs.get or new URL threw
\* (response "caught")
ToggleRead ==
    /\ MayBegin
    /\ \E tabId \in TabIds \cup {ClosedTabId} :
          IF tabId \notin DOMAIN tabs
          THEN Begin([IdleCall EXCEPT !.op = "toggle", !.n = tabId,
                                      !.response = Failure("caught")])
          ELSE IF Falsy(tabs[tabId].url)
          THEN Begin([IdleCall EXCEPT !.op = "toggle", !.n = tabId,
                                      !.response = Failure("returned")])
          ELSE IF NewURL(tabs[tabId].url).threw
          THEN Begin([IdleCall EXCEPT !.op = "toggle", !.n = tabId,
                                      !.response = Failure("caught")])
          ELSE
          LET storageData == getStorageData
              newDomains == ToggledDomains(NewURL(tabs[tabId].url).hostname,
                                           DisabledDomainsOf(storageData))
          IN Begin([IdleCall EXCEPT !.op = "toggle", !.pc = "save", !.n = tabId,
                      !.data = [storageData EXCEPT !.hasDisabledDomains = TRUE,
                                                   !.disabledDomains = newDomains]])
    /\ UNCHANGED <<storage, uuids, overlap>>
    /\ SiteUntouched /\ OthersUntouched

\* the tabs of browser.tabs.query({}) that pass the test t.id && t.url, in order
RECURSIVE TabsWithUrl(_)
TabsWithUrl(t) ==
    IF t > NumTabs THEN <<>>
    ELSE (IF Falsy(tabs[t].url) THEN <<>> ELSE <<t>>) \o TabsWithUrl(t + 1)

\* ... the set takes effect and tabs.query answers
ToggleSave(c) ==
    /\ calls[c].op = "toggle" /\ calls[c].pc = "save"
    /\ storage' = saveStorageData(calls[c].data)
    /\ calls' = [calls EXCEPT ![c].pc = "send", ![c].list = TabsWithUrl(1)]
    /\ lastToggle' = [NoToggle EXCEPT !.phase = "done", !.url = tabs[calls[c].n].url,
                                      !.before = StoredDomains,
                                      !.after = calls[c].data.disabledDomains]
    /\ UNCHANGED <<started, uuids, overlap>>
    /\ UNCHANGED <<tabs, tabMsg, sidebarMsg, menuTitle>>
    /\ OthersUntouched

\* (mutant) sendMessage without .catch: a failed delivery ends the handler in
\* its catch block
AfterSendStopOnFailure(delivered, rest) ==
    IF delivered THEN [pc |-> "send", list |-> rest] ELSE [pc |-> "done", list |-> <<>>]

\* where the loop of lines 178-192 stands after one sendMessage has settled
AfterSend(delivered, rest) == [pc |-> "send", list |-> rest]

\* ... one round of the loop: SITE_ENABLED_CHANGED to the next tab, delivered
\* when a content script listens in it
ToggleSend(c) ==
    /\ calls[c].op = "toggle" /\ calls[c].pc = "send" /\ calls[c].list # <<>>
    /\ \E delivered \in {Head(calls[c].list) \in listening} :
          LET t == Head(calls[c].list)
              isNowDisabled == isUrlDisabled(tabs[t].url, calls[c].data.disabledDomains)
              after == AfterSend(delivered, Tail(calls[c].list))
          IN /\ calls' = [calls EXCEPT
                   ![c].sent = Append(@, [tab |-> t, enabled |-> ~isNowDisabled,
                                          delivered |-> delivered]),
                   ![c].pc = after.pc,
                   ![c].list = after.list]
             /\ tabMsg' = IF delivered
                          THEN [tabMsg EXCEPT ![t] = [sent |-> TRUE,
                                                      enabled |-> ~isNowDisabled]]
                          ELSE tabMsg
    /\ UNCHANGED <<storage, started, uuids, overlap>>
    /\ UNCHANGED <<tabs, sidebarMsg, menuTitle, lastToggle>>
    /\ OthersUntouched

\* ... after the loop: updateContextMenu and the sidebar's SITE_ENABLED_CHANGED
\* (tab 0 in the record of what was sent)
ToggleFinish(c) ==
    /\ calls[c].op = "toggle" /\ calls[c].pc = "send" /\ calls[c].list = <<>>
    /\ LET isCurrentlyDisabled ==
               isUrlDisabled(tabs[calls[c].n].url, calls[c].data.disabledDomains)
       IN /\ menuTitle' = MenuTitleFor(isCurrentlyDisabled)
          /\ sidebarMsg' = [sent |-> TRUE, enabled |-> ~isCurrentlyDisabled]
          /\ calls' = [calls EXCEPT
                ![c].pc = "done",
                ![c].notified = "SITE_ENABLED_CHANGED",
                ![c].sent = Append(@, [tab |-> 0, enabled |-> ~isCurrentlyDisabled,
                                       delivered |-> TRUE]),
                ![c].response = Success]
    /\ UNCHANGED <<storage, started, uuids, overlap>>
    /\ UNCHANGED <<tabs, tabMsg, lastToggle>>
    /\ OthersUntouched

\* the record browser.storage.local.get gives the install listener
InitialData ==
    [exists |-> TRUE, items |-> <<>>, nextOrder |-> 0,
     hasDisabledDomains |-> TRUE, disabledDomains |-> <<>>]

\* (mutant) the install listener without its test of result[STORAGE_KEY]
InstallWriteAlways(stored) == [write |-> TRUE, data |-> InitialData]

\* what the install listener sets, if anything, for the record it has read
InstallWrite(stored) ==
    IF ~stored.exists THEN [write |-> TRUE, data |-> InitialData]
    ELSE IF ~stored.hasDisabledDomains
         THEN [write |-> TRUE, data |-> [stored EXCEPT !.hasDisabledDomains = TRUE,
                                                       !.disabledDomains = <<>>]]
    ELSE [write |-> FALSE, data |-> NoData]

\* the onInstalled listener up to its browser.storage.local.set, or to its end
InstallRead ==
    /\ MayBegin
    /\ Begin([IdleCall EXCEPT !.op = "install",
                !.pc = IF InstallWrite(storage).write THEN "save" ELSE "done",
                !.data = InstallWrite(storage).data])
    /\ UNCHANGED <<storage, uuids, overlap>>
    /\ SiteUntouched /\ OthersUntouched

InstallSave(c) ==
    /\ calls[c].op = "install" /\ calls[c].pc = "save"
    /\ storage' = saveStorageData(calls[c].data)
    /\ calls' = [calls EXCEPT ![c].pc = "done"]
    /\ UNCHANGED <<started, uuids, overlap>>
    /\ SiteUntouched /\ OthersUntouched

-----------------------------------------------------------------------------
(* SpecBg: the handlers with messages taken up while others await.         *)
(* SpecSeq: the same handlers, each message taken up after the handler     *)
(* before it has ended.                                                    *)

BgUrlPool ==
    {AbsUrl("https:", <<"a", ".", "b">>), AbsUrl("https:", <<"b", ".", "a", ".", "b">>),
     UndefinedUrl}

\* the record after three captures and the delete of the second item
TwoItemsStored ==
    [exists |-> TRUE, items |-> <<[id |-> 1, order |-> 0], [id |-> 3, order |-> 2]>>,
     nextOrder |-> 3, hasDisabledDomains |-> TRUE, disabledDomains |-> <<>>]

\* tab 1 shows a page of a.b; every other tab shows a page of its subdomain
\* b.a.b or has no url
HandlerTabs ==
    {ts \in [TabIds -> [url : BgUrlPool]] :
        /\ ts[1].url = AbsUrl("https:", <<"a", ".", "b">>)
        /\ \A t \in TabIds \ {1} : ts[t].url # ts[1].url}

\* a content script listens in tabs that show a page, in all or in some
InitHandlers ==
    /\ InitMatchIdle
    /\ InitImageIdle
    /\ storage \in StoredAtStart \cup {TwoItemsStored}
    /\ tabs \in HandlerTabs
    /\ tabMsg = [t \in TabIds |-> [sent |-> FALSE, enabled |-> TRUE]]
    /\ sidebarMsg = [sent |-> FALSE, enabled |-> TRUE]
    /\ menuTitle = MenuTitleFor(FALSE)
    /\ lastToggle = NoToggle
    /\ calls = [c \in CallIds |-> IdleCall]
    /\ started = 0
    /\ uuids = storage.nextOrder
    /\ listening \in SUBSET {t \in TabIds : ~Falsy(tabs[t].url)}
    /\ activeTab = 1
    /\ InitCheckIdle
    /\ InitOverlay

InitBg == InitHandlers /\ overlap = TRUE
InitSeq == InitHandlers /\ overlap = FALSE

NextBg ==
    \/ CaptureCheck
    \/ \E c \in CallIds : CaptureRead(c)
    \/ \E c \in CallIds : CaptureSave(c)
    \/ \E c \in CallIds : CaptureNotify(c)
    \/ DeleteRead
    \/ \E c \in CallIds : DeleteSave(c)
    \/ ReorderSend
    \/ \E c \in CallIds : ReorderRead(c)
    \/ \E c \in CallIds : ReorderSave(c)
    \/ ClearRead
    \/ \E c \in CallIds : ClearSave(c)
    \/ ToggleRead
    \/ \E c \in CallIds : ToggleSave(c)
    \/ \E c \in CallIds : ToggleSend(c)
    \/ \E c \in CallIds : ToggleFinish(c)
    \/ InstallRead
    \/ \E c \in CallIds : InstallSave(c)

SpecBg == InitBg /\ [][NextBg]_vars
SpecSeq == InitSeq /\ [][NextBg]_vars

-----------------------------------------------------------------------------
(* SpecLimit: capture requests, taken up while others await, on a          *)
(* collection that is one item short of MAX_ITEMS or holds MAX_ITEMS.      *)

StoredItems(count) == [k \in 1..count |-> [id |-> k, order |-> k - 1]]

InitLimit ==
    /\ InitMatchIdle
    /\ InitImageIdle
    /\ \E count \in {MAX_ITEMS - 1, MAX_ITEMS} :
          /\ storage = [exists |-> TRUE, items |-> StoredItems(count), nextOrder |-> count,
                        hasDisabledDomains |-> TRUE, disabledDomains |-> <<>>]
          /\ uuids = count
    /\ tabs = [t \in TabIds |-> [url |-> AbsUrl("https:", <<"a", ".", "b">>)]]
    /\ tabMsg = [t \in TabIds |-> [sent |-> FALSE, enabled |-> TRUE]]
    /\ sidebarMsg = [sent |-> FALSE, enabled |-> TRUE]
    /\ menuTitle = MenuTitleFor(FALSE)
    /\ lastToggle = NoToggle
    /\ calls = [c \in CallIds |-> IdleCall]
    /\ started = 0
    /\ overlap = TRUE
    /\ listening = {1}
    /\ activeTab = 1
    /\ InitCheckIdle
    /\ InitOverlay

NextLimit ==
    \/ CaptureCheck
    \/ \E c \in CallIds : CaptureRead(c)
    \/ \E c \in CallIds : CaptureSave(c)
    \/ \E c \in CallIds : CaptureNotify(c)

SpecLimit == InitLimit /\ [][NextLimit]_vars

\* C20: a capture request whose check finds MAX_ITEMS or more items stored is
\* answered success:false with the item-limit error (whatever the quota
\* check would say), saves nothing and sends no ITEM_ADDED; and the number of
\* stored items never exceeds MAX_ITEMS through captures.
C20_ItemLimitKept ==
    /\ \A c \in CallIds :
          (calls[c].op \in CaptureKinds /\ calls[c].itemCount >= MAX_ITEMS) =>
              /\ calls[c].pc = "done"
              /\ calls[c].response = Failure("ItemLimitError")
              /\ calls[c].item = NoItem
              /\ calls[c].notified = "none"
    /\ ItemCount <= MAX_ITEMS

-----------------------------------------------------------------------------
(* Claims about the background handlers *)

\* C12: the stored disabled-domain list changes only as the effect of a
\* toggle: in every interleaving of the handlers' reads and writes, what is
\* stored is what the latest toggle to have saved wrote (the empty list
\* before any toggle), whatever the capture handlers, handleDeleteItem,
\* handleReorderItems and handleClearAll have done since.
C12_DomainsOnlyByToggle ==
    StoredDomains = IF lastToggle.phase = "done" THEN lastToggle.after ELSE <<>>

HasUrl(t) == tabs[t].url.kind \notin {"undefined", "empty"}

\* the entries of a toggle's record of messages that went to tab t (0: sidebar)
SentTo(c, t) == {k \in DOMAIN calls[c].sent : calls[c].sent[k].tab = t}

\* C13: a toggle that changes the stored list persists the new list before it
\* sends anything; by its end every open tab with a URL has been sent one
\* SITE_ENABLED_CHANGED with enabled = not isUrlDisabled(its URL, new list),
\* also after a delivery to an earlier tab has failed, and last the sidebar
\* has been sent the toggled tab's new state.
C13_PersistThenNotifyAll ==
    \A c \in CallIds : (calls[c].op = "toggle" /\ calls[c].data # NoData) =>
        LET newSet == calls[c].data.disabledDomains
            log == calls[c].sent
        IN /\ calls[c].pc = "save" => (log = <<>> /\ calls[c].notified = "none")
           /\ calls[c].pc = "send" =>
                 (storage.exists /\ storage.hasDisabledDomains
                    /\ storage.disabledDomains = newSet)
           /\ calls[c].pc = "done" =>
                 /\ \A t \in TabIds :
                       IF HasUrl(t)
                       THEN /\ Cardinality(SentTo(c, t)) = 1
                            /\ \A k \in SentTo(c, t) :
                                  log[k].enabled = ~isUrlDisabled(tabs[t].url, newSet)
                       ELSE SentTo(c, t) = {}
                 /\ SentTo(c, 0) = {Len(log)}
                 /\ log[Len(log)].enabled = ~isUrlDisabled(tabs[calls[c].n].url, newSet)
                 /\ calls[c].notified = "SITE_ENABLED_CHANGED"

\* C13 witness: the delivery to the first tab failed, the second tab was sent
\* the opposite state, and the sidebar was notified
C13_Witness ==
    \E c \in CallIds :
        /\ calls[c].op = "toggle" /\ calls[c].pc = "done"
        /\ Len(calls[c].sent) = 3
        /\ ~calls[c].sent[1].delivered
        /\ calls[c].sent[2].delivered
        /\ calls[c].sent[1].enabled # calls[c].sent[2].enabled
        /\ calls[c].sent[3].tab = 0

\* C14: the install listener creates the record, with an empty disabled list,
\* only when none is stored; a stored record keeps its items, its nextOrder
\* and its disabledDomains (the empty list if it had none), whatever captures
\* and toggles came before.
C14_InstallLosesNothing ==
    [][/\ InstallRead => storage' = storage
       /\ \A c \in CallIds : InstallSave(c) =>
             IF storage.exists
             THEN /\ storage'.exists
                  /\ storage'.items = storage.items
                  /\ storage'.nextOrder = storage.nextOrder
                  /\ storage'.hasDisabledDomains
                  /\ storage'.disabledDomains = DisabledDomainsOf(storage)
             ELSE storage' = [exists |-> TRUE, items |-> <<>>, nextOrder |-> 0,
                              hasDisabledDomains |-> TRUE, disabledDomains |-> <<>>]]_vars

\* C14 witness: the install listener has filled in the disabled list of a
\* record that holds an item
C14_Witness ==
    \E c \in CallIds :
        /\ calls[c].op = "install" /\ calls[c].pc = "done"
        /\ calls[c].data # NoData /\ Len(calls[c].data.items) > 0
        /\ storage = calls[c].data

-----------------------------------------------------------------------------
(* Further claims about findBestImage, checked under SpecImage *)

\* C30: the refactored findBestImage returns an image whenever a gathered
\* candidate has a non-empty src, also when every such candidate is a
\* placeholder; it returns null only when no candidate has a src.
C30_RefactoredNonNull ==
    (bestRefactored.called /\ startElement # 0) =>
        /\ ~bestRefactored.threw
        /\ bestRefactored.index # 0 <=> WithSrc(GatheredRefactored) # {}

-----------------------------------------------------------------------------
(* SpecCheck: handleCheckSiteEnabled, itemManagerHandler.ts 279-305, as a  *)
(* function of the message, the sender, the tabs and the stored record.    *)

\* message.data.tabId when the message names a tab, else sender.tab?.id;
\* 0 stands for undefined
RequestedTabId(message) ==
    IF message.hasTabId /\ message.tabId # -1 THEN message.tabId
    ELSE IF message.senderHasTab THEN message.senderTabId
    ELSE 0

Enabled(value) == [success |-> TRUE, error |-> "none", enabled |-> value]

\* the handler that answers enabled:false when a lookup throws
handleCheckSiteEnabledFailClosed(message) ==
    LET tabId == RequestedTabId(message)
    IN  IF tabId = 0
        THEN [success |-> FALSE, error |-> "No tabId found", enabled |-> FALSE]
        ELSE IF tabId \notin TabIds THEN Enabled(FALSE)
        ELSE IF Falsy(tabs[tabId].url) THEN Enabled(TRUE)
        ELSE IF message.readFails THEN Enabled(FALSE)
        ELSE Enabled(~isUrlDisabled(tabs[tabId].url, DisabledDomainsOf(getStorageData)))

handleCheckSiteEnabled(message) ==
    LET tabId == RequestedTabId(message)
    IN  IF tabId = 0
        THEN [success |-> FALSE, error |-> "No tabId found", enabled |-> FALSE]
        \* browser.tabs.get rejects: the catch block answers
        ELSE IF tabId \notin TabIds THEN Enabled(TRUE)
        ELSE IF Falsy(tabs[tabId].url) THEN Enabled(TRUE)
        \* browser.storage.local.get rejects: the catch block answers
        ELSE IF message.readFails THEN Enabled(TRUE)
        ELSE Enabled(~isUrlDisabled(tabs[tabId].url, DisabledDomainsOf(getStorageData)))

\* the messages: with or without data.tabId, which is -1, an open tab or a
\* closed one; from a tab's content script or from the sidebar
Requests ==
    [hasTabId : BOOLEAN, tabId : {-1} \cup TabIds \cup {ClosedTabId},
     senderHasTab : BOOLEAN, senderTabId : TabIds \cup {ClosedTabId},
     readFails : BOOLEAN]

CheckStored ==
    StoredAtStart \cup
    {[exists |-> TRUE, items |-> <<>>, nextOrder |-> 0,
      hasDisabledDomains |-> TRUE, disabledDomains |-> dd] :
        dd \in {<<<<"b">>>>, <<<<"a", ".", "b">>>>}}

InitCheck ==
    /\ InitMatchIdle
    /\ InitImageIdle
    /\ InitBgIdle
    /\ storage \in CheckStored
    /\ tabs \in [TabIds -> [url : BgUrlPool]]
    /\ tabMsg = [t \in TabIds |-> [sent |-> FALSE, enabled |-> TRUE]]
    /\ sidebarMsg = [sent |-> FALSE, enabled |-> TRUE]
    /\ menuTitle = MenuTitleFor(FALSE)
    /\ lastToggle = NoToggle
    /\ InitOverlay
    /\ listening = {}
    /\ activeTab = 1
    /\ request \in Requests
    /\ reply = NotAnswered

CheckSiteEnabled ==
    /\ ~reply.called
    /\ reply' = [called |-> TRUE] @@ handleCheckSiteEnabled(request)
    /\ UNCHANGED <<listening, activeTab, request, overlayVars>>
    /\ UNCHANGED <<matchVars, siteVars, imageVars, bgVars>>

NextCheck == CheckSiteEnabled

SpecCheck == InitCheck /\ [][NextCheck]_vars

\* the tab a request is about: the one the message names, or the sender's tab
\* when the message names none or names -1; {} when neither gives one
AskedTabs ==
    IF request.hasTabId /\ request.tabId # -1 THEN {request.tabId}
    ELSE IF request.senderHasTab THEN {request.senderTabId}
    ELSE {}

\* C21: the reply to CHECK_SITE_ENABLED is success:true with enabled = not
\* isUrlDisabled(tab URL, stored disabledDomains) for the tab the message
\* names, or the sender's tab when the message names -1; enabled:true when
\* the tab has no URL or the tab lookup or the storage read throws;
\* success:false with 'No tabId found' only when neither gives a tab id.
C21_CheckSiteEnabledReply ==
    reply.called =>
        /\ AskedTabs = {} => (~reply.success /\ reply.error = "No tabId found")
        /\ \A t \in AskedTabs :
              /\ reply.success /\ reply.error = "none"
              /\ reply.enabled =
                    IF t \in TabIds /\ HasUrl(t) /\ ~request.readFails
                    THEN ~isUrlDisabled(tabs[t].url, StoredDomains)
                    ELSE TRUE

\* the message names -1, the sender's tab shows a page of a disabled domain
C21_Witness ==
    /\ reply.called /\ reply.success /\ ~reply.enabled
    /\ request.hasTabId /\ request.tabId = -1 /\ request.senderHasTab

-----------------------------------------------------------------------------
(* SpecTabs: the service worker's tab listeners (tabs.onActivated,         *)
(* tabs.onUpdated) and the toggle, each handler run to its end before the  *)
(* next event, over tabs that are switched between and navigated.          *)

\* the SITE_ENABLED_CHANGED message built at 65-69 and at 89-93
EnabledChanged(isDisabled) == [sent |-> TRUE, enabled |-> ~isDisabled]

\* tabs.onActivated: the listener's effect when tabId has become active
onActivated(tabId) ==
    IF Falsy(tabs[tabId].url)
    THEN UNCHANGED <<menuTitle, sidebarMsg, tabMsg>>
    ELSE LET isDisabled == isUrlDisabled(tabs[tabId].url, StoredDomains)
         IN  /\ menuTitle' = MenuTitleFor(isDisabled)
             /\ sidebarMsg' = EnabledChanged(isDisabled)
             /\ tabMsg' = [tabMsg EXCEPT ![tabId] = EnabledChanged(isDisabled)]

\* tabs.onUpdated with changeInfo.url, or with status 'complete' on a tab
\* that has a url: the listener's effect; tabUrl is tab.url of the event
onUpdated(tabId, tabUrl) ==
    LET isDisabled == isUrlDisabled(tabUrl, StoredDomains)
    IN  /\ menuTitle' = MenuTitleFor(isDisabled)
        /\ IF activeTab = tabId
           THEN /\ sidebarMsg' = EnabledChanged(isDisabled)
                /\ tabMsg' = [tabMsg EXCEPT ![tabId] = EnabledChanged(isDisabled)]
           ELSE UNCHANGED <<sidebarMsg, tabMsg>>

\* the stored record when the tabs are looked at: nothing disabled, or one
\* of the two domains the tabs show
TabsStored ==
    {[exists |-> TRUE, items |-> <<>>, nextOrder |-> 0,
      hasDisabledDomains |-> TRUE, disabledDomains |-> dd] :
        dd \in {<<>>, <<<<"a", ".", "b">>>>, <<<<"b", ".", "a", ".", "b">>>>}}

\* the menu title as the last listener left it for the active tab
InitTabs ==
    /\ InitMatchIdle
    /\ InitImageIdle
    /\ InitBgIdle
    /\ InitCheckIdle
    /\ InitOverlay
    /\ listening = {}
    /\ storage \in TabsStored
    /\ tabs \in [TabIds -> [url : BgUrlPool]]
    /\ activeTab \in TabIds
    /\ tabMsg = [t \in TabIds |-> [sent |-> FALSE, enabled |-> TRUE]]
    /\ sidebarMsg = [sent |-> FALSE, enabled |-> TRUE]
    /\ menuTitle = MenuTitleFor(isUrlDisabled(tabs[activeTab].url, StoredDomains))
    /\ lastToggle = NoToggle

TabsUntouched ==
    UNCHANGED <<listening, request, reply, overlayVars, matchVars, imageVars, bgVars>>

\* the user switches to another tab
Activate ==
    /\ \E t \in TabIds \ {activeTab} :
          /\ activeTab' = t
          /\ onActivated(t)
    /\ UNCHANGED <<storage, tabs, lastToggle>>
    /\ TabsUntouched

\* a tab commits a navigation or finishes loading
Update ==
    /\ \E t \in TabIds, u \in BgUrlPool \ {UndefinedUrl} :
          /\ tabs' = [tabs EXCEPT ![t].url = u]
          /\ onUpdated(t, u)
    /\ UNCHANGED <<storage, activeTab, lastToggle>>
    /\ TabsUntouched

\* the context menu item is clicked on the page of the active tab
ToggleActive ==
    /\ toggleSiteEnabled(activeTab)
    /\ UNCHANGED activeTab
    /\ TabsUntouched

NextTabs == Activate \/ Update \/ ToggleActive

SpecTabs == InitTabs /\ [][NextTabs]_vars

\* C28: once the handlers for tab activation, tab update and toggle have run
\* to completion, the menu title is 'Enable Notes Collector on this page'
\* exactly when the active tab's URL is disabled under the stored set; an
\* update of a tab that is not the active tab leaves the title alone.
C28_MenuFollowsActiveTab ==
    (menuTitle = "Enable Notes Collector on this page")
        <=> isUrlDisabled(tabs[activeTab].url, StoredDomains)

-----------------------------------------------------------------------------
(* SpecOverlay: content/components/screenshotOverlay.ts.  Each call of     *)
(* startScreenshotMode that gets past line 19 is an activation; its three  *)
(* handlers and its cleanup are closures of that activation.               *)

MaxActivations == 2     \* activations in one behaviour

Coords == {0, 5, 6}     \* clientX and clientY of the mouse events
Points == [x : Coords, y : Coords]
\* where the mouse goes down: to the left of, or to the right of, a release
StartPoints == {[x |-> 0, y |-> 0], [x |-> 6, y |-> 0]}

Abs(n) == IF n < 0 THEN -n ELSE n

\* an activation that is still going on
Going == [how |-> "going", start |-> [x |-> 0, y |-> 0], release |-> [x |-> 0, y |-> 0]]

\* cleanup that leaves the three handlers on document
cleanupKeepListeners(a) ==
    /\ IF overlay # 0
       THEN /\ dom' = dom \ {overlay}
            /\ overlay' = 0
            /\ box' = "null"
       ELSE UNCHANGED <<dom, overlay, box>>
    /\ UNCHANGED listeners

\* cleanup, 95-104, of activation a
cleanup(a) ==
    /\ IF overlay # 0
       THEN /\ dom' = dom \ {overlay}
            /\ overlay' = 0
            /\ box' = "null"
       ELSE UNCHANGED <<dom, overlay, box>>
    /\ listeners' = listeners \ {a}

\* startScreenshotMode(clientX, clientY, onCapture), 14-48 and 106-108
startScreenshotMode(point) ==
    IF overlay # 0
    THEN UNCHANGED overlayVars
    ELSE LET a == Len(ended) + 1
         IN  /\ overlay' = a
             /\ box' = "none"
             /\ dom' = dom \cup {a}
             /\ startPoint' = point
             /\ isDrawing' = TRUE
             /\ listeners' = listeners \cup {a}
             /\ ended' = Append(ended, [Going EXCEPT !.start = point])
             /\ UNCHANGED <<timers, captured>>

\* handleMouseMove of activation a, 50-66
handleMouseMove(a, e) ==
    IF ~isDrawing \/ box = "null"
    THEN UNCHANGED overlayVars
    ELSE /\ box' = "block"
         /\ UNCHANGED <<overlay, startPoint, isDrawing, dom, listeners, timers, captured, ended>>

\* handleMouseUp of activation a, 68-89
handleMouseUp(a, e) ==
    IF ~isDrawing
    THEN UNCHANGED overlayVars
    ELSE LET width == Abs(e.x - startPoint.x)
             height == Abs(e.y - startPoint.y)
         IN  /\ isDrawing' = FALSE
             /\ cleanup(a)
             /\ timers' = IF width > 5 /\ height > 5
                          THEN timers \cup {[activation |-> a, width |-> width,
                                             height |-> height]}
                          ELSE timers
             /\ ended' = [ended EXCEPT ![a].how = "mouseup", ![a].release = e]
             /\ UNCHANGED <<startPoint, captured>>

\* handleKeyDown of activation a, 91-93
handleKeyDown(a, key) ==
    IF key = "Escape"
    THEN /\ cleanup(a)
         /\ ended' = [ended EXCEPT ![a].how = "Escape"]
         /\ UNCHANGED <<startPoint, isDrawing, timers, captured>>
    ELSE UNCHANGED overlayVars

\* the callback of line 85: onCapture(rect)
onCaptureTimeout(t) ==
    /\ timers' = timers \ {t}
    /\ captured' = Append(captured, [activation |-> t.activation, width |-> t.width,
                                       height |-> t.height, dom |-> dom])
    /\ UNCHANGED <<overlay, box, startPoint, isDrawing, dom, listeners, ended>>

OverlayUntouched ==
    UNCHANGED <<listening, activeTab, request, reply, matchVars, siteVars, imageVars, bgVars>>

InitOverlayPage ==
    /\ InitMatchIdle
    /\ InitSite
    /\ InitImageIdle
    /\ InitBgIdle
    /\ InitPageIdle

\* the content script starts screenshot mode
StartScreenshotMode ==
    /\ Len(ended) < MaxActivations
    /\ \E point \in StartPoints : startScreenshotMode(point)
    /\ OverlayUntouched

\* the document dispatches mousemove, mouseup, keydown to the handlers on it
MouseMove ==
    /\ \E a \in listeners, e \in Points : handleMouseMove(a, e)
    /\ OverlayUntouched

MouseUp ==
    /\ \E a \in listeners, e \in Points : handleMouseUp(a, e)
    /\ OverlayUntouched

KeyDown ==
    /\ \E a \in listeners, key \in {"Escape", "Enter"} : handleKeyDown(a, key)
    /\ OverlayUntouched

\* 50 ms have passed for one of the pending callbacks
Timeout ==
    /\ \E t \in timers : onCaptureTimeout(t)
    /\ OverlayUntouched

NextOverlay == StartScreenshotMode \/ MouseMove \/ MouseUp \/ KeyDown \/ Timeout

SpecOverlay == InitOverlayPage /\ [][NextOverlay]_vars

\* C29: isDrawingScreenshot() is true only while an overlay is present: after
\* screenshot mode has ended, by mouseup or by Escape, it returns false until
\* startScreenshotMode is called again.
C29_DrawingOnlyWithOverlay == isDrawing => dom # {}

\* what the mouse of activation a spanned between its start and its release
Spanned(a) ==
    [width |-> Abs(ended[a].release.x - ended[a].start.x),
     height |-> Abs(ended[a].release.y - ended[a].start.y)]

\* C23: at most one overlay exists at any time; after mouseup or Escape the
\* activation's overlay is off the page and its mousemove, mouseup and keydown
\* listeners are off the document; onCapture is called at most once per
\* activation, only after that activation's overlay has been removed, only
\* when the released rectangle is wider than 5 and taller than 5, and never
\* for an activation that Escape ended.
C23_OverlayLifecycle ==
    /\ Cardinality(dom) <= 1
    /\ listeners = dom
    /\ \A a \in DOMAIN ended :
          ended[a].how # "going" => (a \notin dom /\ a \notin listeners)
    /\ \A t1 \in timers : \A t2 \in timers : t1.activation = t2.activation => t1 = t2
    /\ \A i \in DOMAIN captured :
          LET a == captured[i].activation
          IN  /\ \A j \in DOMAIN captured : captured[j].activation = a => j = i
              /\ \A t \in timers : t.activation # a
              /\ a \notin captured[i].dom
              /\ ended[a].how = "mouseup"
              /\ Spanned(a).width > 5 /\ Spanned(a).height > 5
              /\ captured[i].width = Spanned(a).width
              /\ captured[i].height = Spanned(a).height
    /\ \A a \in DOMAIN ended :
          (ended[a].how = "mouseup" /\ ~(Spanned(a).width > 5 /\ Spanned(a).height > 5))
              => \A t \in timers : t.activation # a

\* one activation has captured, another was ended by Escape
C23_Witness ==
    /\ \E i \in DOMAIN captured : ended[captured[i].activation].how = "mouseup"
    /\ \E a \in DOMAIN ended : ended[a].how = "Escape"
    /\ dom = {}

-----------------------------------------------------------------------------
(* Further claims about the background handlers.                           *)
(* SpecCapture: capture requests alone, taken up while others await.       *)

SpecCapture == InitBg /\ [][NextLimit]_vars

StoredIds == {getStorageData.items[k].id : k \in DOMAIN getStorageData.items}

\* the items other than those with the given id, in their order
RECURSIVE Kept(_, _)
Kept(items, id) ==
    IF items = <<>> THEN <<>>
    ELSE (IF Head(items).id = id THEN <<>> ELSE <<Head(items)>>) \o Kept(Tail(items), id)

\* C22: handleDeleteItem with an id that no stored item has answers
\* success:false 'Item not found', writes nothing and sends no ITEM_DELETED;
\* with an id that is stored it removes exactly the items with that id, keeps
\* the others in their order, leaves nextOrder and disabledDomains as they
\* were, sends ITEM_DELETED and answers success:true.
C22_DeleteExactly ==
    [][\A c \in CallIds :
          /\ (calls'[c] # calls[c] /\ calls'[c].op = "delete" /\ calls[c].pc = "done") =>
                /\ storage' = storage
                /\ IF calls'[c].n \in StoredIds
                   THEN calls'[c].pc # "done" /\ calls'[c].notified = "none"
                   ELSE /\ calls'[c].pc = "done"
                        /\ calls'[c].response = [success |-> FALSE, error |-> "Item not found"]
                        /\ calls'[c].notified = "none"
          /\ (calls[c].op = "delete" /\ calls[c].pc # "done" /\ calls'[c].pc = "done") =>
                /\ calls[c].n \in StoredIds
                /\ storage'.items = Kept(getStorageData.items, calls[c].n)
                /\ storage'.nextOrder = getStorageData.nextOrder
                /\ storage'.hasDisabledDomains = getStorageData.hasDisabledDomains
                /\ storage'.disabledDomains = getStorageData.disabledDomains
                /\ calls'[c].notified = "ITEM_DELETED"
                /\ calls'[c].response = [success |-> TRUE, error |-> "none"]
      ]_vars

\* the second of two stored items has been deleted, the first is kept
C22_Witness ==
    \E c \in CallIds :
        /\ calls[c].op = "delete" /\ calls[c].pc = "done" /\ calls[c].response.success
        /\ calls[c].n = 3
        /\ storage.items = <<[id |-> 1, order |-> 0]>>

\* C24: after any sequence of operations that do not overlap (captures,
\* deletes, clear-all, reorders by drag-and-drop) the stored items have
\* pairwise distinct order values and every order is below nextOrder.
C24_OrdersDistinctBelowNext ==
    LET items == getStorageData.items
    IN  /\ \A i \in DOMAIN items : \A j \in DOMAIN items :
              i # j => items[i].order # items[j].order
        /\ \A i \in DOMAIN items : items[i].order < getStorageData.nextOrder

\* a drop has renumbered two items and a capture has followed it
C24_Witness ==
    /\ Len(storage.items) = 3
    /\ storage.items[1] = [id |-> 3, order |-> 0]
    /\ storage.items[2] = [id |-> 1, order |-> 1]
    /\ storage.items[3].order = 3
    /\ storage.nextOrder = 4

\* C25: every capture request answered success:true has its item in storage
\* afterwards (until it is deleted or all is cleared): when two capture
\* requests are handled interleaved, both items end up stored.
C25_AnsweredCaptureIsStored ==
    \A c \in CallIds :
        (calls[c].op \in CaptureKinds /\ calls[c].pc = "done" /\ calls[c].response.success)
            => calls[c].item.id \in StoredIds

\* C26: a reorder only permutes: when the background has handled a
\* REORDER_ITEMS that the sidebar's drag-and-drop produced, the set of stored
\* ids is the set stored immediately before, also when a capture or a delete
\* completed between the sidebar's view of the list and the handling.
C26_ReorderOnlyPermutes ==
    [][\A c \in CallIds :
          (calls[c].op = "reorder" /\ calls[c].pc = "save" /\ calls'[c].pc = "done")
              => StoredIds' = StoredIds
      ]_vars

\* C27: no item is stored from a page on which capture is disabled: when a
\* capture's item is added to storage, the URL of the tab it came from is not
\* disabled under the disabledDomains stored at that moment.
C27_NoItemFromDisabledPage ==
    \A c \in CallIds :
        (calls[c].op \in CaptureKinds /\ calls[c].item # NoItem
            /\ calls[c].pc \in {"notify", "done"})
            => ~isUrlDisabled(tabs[calls[c].tab].url, DisabledDomainsOf(calls[c].data))

====
